---- MODULE Spec2Model ----
(***************************************************************************)
(* A model of src/builder/client.ts: createClient's per-route callable     *)
(* (route decoding, layered request construction, the before/after hook    *)
(* pipeline, the fetch invocation and the response decoding), and of the   *)
(* Request/Result objects built by createRequest/createResult.             *)
(*                                                                         *)
(* JavaScript values are modelled as follows.                              *)
(*  - undefined is the empty tuple << >>; a defined optional value x is    *)
(*    <<x>>.                                                               *)
(*  - a plain object is a function from its own enumerable keys to values; *)
(*    a key holding undefined is modelled as an absent key.                *)
(*  - strings the code takes apart or concatenates (routes, methods,       *)
(*    paths, URLs) are sequences of one-character strings; strings the     *)
(*    code only passes along (header names and values, wire text) are TLA+ *)
(*    strings.                                                             *)
(*  - the headers object of a Request lives in a heap (a sequence of       *)
(*    objects, the address being the index), because the same object is    *)
(*    referenced from several places (resourceStandardHeaders).            *)
(***************************************************************************)
EXTENDS Integers, Sequences, FiniteSets, TLC

\* ------------------------------------------------------------ JS values

None == << >>
Some(x) == <<x>>

\* o[k] of a plain object: undefined when the key is absent.
Prop(o, k) == IF k \in DOMAIN o THEN <<o[k]>> ELSE << >>

\* a ?? b
Coalesce(a, b) == IF a # << >> THEN a ELSE b

\* The value of (a ?? d) where d is defined.
OrElse(a, d) == IF a # << >> THEN a[1] ELSE d

\* {...o, k: v}; a key set to undefined is dropped (see the header comment).
With(o, k, v) == IF v = << >> THEN [x \in DOMAIN o \ {k} |-> o[x]]
                 ELSE (k :> v[1]) @@ o

EmptyObject == << >>

\* ---------------------------------------------------------------- strings

LowerCase == <<"a","b","c","d","e","f","g","h","i","j","k","l","m",
               "n","o","p","q","r","s","t","u","v","w","x","y","z">>
UpperCase == <<"A","B","C","D","E","F","G","H","I","J","K","L","M",
               "N","O","P","Q","R","S","T","U","V","W","X","Y","Z">>

UpperChar(ch) ==
    IF \E i \in 1..Len(LowerCase) : LowerCase[i] = ch
    THEN UpperCase[CHOOSE i \in 1..Len(LowerCase) : LowerCase[i] = ch]
    ELSE ch

\* String.prototype.toUpperCase
toUpperCase(s) == [i \in 1..Len(s) |-> UpperChar(s[i])]

\* The value undefined where the code goes on to use it as a string
\* (decodeRoute's path when the route has a single token).
UndefinedValue == <<"<undefined>">>

\* String(x) as done by the + operator: "undefined" for undefined.
ToStr(s) == IF s = UndefinedValue
            THEN <<"u","n","d","e","f","i","n","e","d">> ELSE s

RECURSIVE SplitAll(_)
\* route.split(" "): cut at every space, empty pieces kept.
SplitAll(s) ==
    IF \A i \in 1..Len(s) : s[i] # " "
    THEN <<s>>
    ELSE LET i == CHOOSE k \in 1..Len(s) :
                    s[k] = " " /\ \A j \in 1..(k - 1) : s[j] # " "
         IN  <<SubSeq(s, 1, i - 1)>> \o SplitAll(SubSeq(s, i + 1, Len(s)))

\* String.prototype.split(" ", limit): the first `limit` pieces of SplitAll;
\* what follows them is dropped.
split(s, limit) ==
    LET all == SplitAll(s)
    IN  IF Len(all) > limit THEN SubSeq(all, 1, limit) ELSE all

GET == <<"G","E","T">>
POST == <<"P","O","S","T">>
PUT == <<"P","U","T">>
DELETE == <<"D","E","L","E","T","E">>
PATCH == <<"P","A","T","C","H">>

SupportedMethods == {GET, POST, PUT, DELETE, PATCH}

\* ------------------------------------------------------------ decodeRoute

NoError == [name |-> "", token |-> << >>, route |-> << >>]

\* A variant whose message leaves the route out.
InvalidMethodErrorNoRoute(method, route) ==
    [name |-> "Invalid HTTP method", token |-> method, route |-> << >>]

\* new Error(`Invalid HTTP method: ${method} at route: ${route}`)
InvalidMethodError(method, route) ==
    [name |-> "Invalid HTTP method", token |-> method, route |-> route]

\* A variant without the early return for a single token.
decodeRouteNoBareRoute(method, route) ==
    LET tokens == split(route, 2)
        m == toUpperCase(tokens[1])
        path == IF Len(tokens) >= 2 THEN tokens[2] ELSE UndefinedValue
    IN  IF m \notin SupportedMethods
        THEN [ok |-> FALSE, method |-> m, path |-> path,
              error |-> InvalidMethodError(m, route)]
        ELSE [ok |-> TRUE, method |-> m, path |-> path, error |-> NoError]

\* method is undefined (None) or Some(string); the result is either the
\* returned {method, path} (ok) or the thrown error.
decodeRoute(method, route) ==
    LET tokens == split(route, 2)
    IN  IF Len(tokens) = 1 /\ method = None
        THEN [ok |-> TRUE, method |-> GET, path |-> route, error |-> NoError]
        ELSE LET _method == tokens[1]
                 path == IF Len(tokens) >= 2 THEN tokens[2] ELSE UndefinedValue
                 m == toUpperCase(_method)
             IN  IF m \notin SupportedMethods
                 THEN [ok |-> FALSE, method |-> m, path |-> path,
                       error |-> InvalidMethodError(m, route)]
                 ELSE [ok |-> TRUE, method |-> m, path |-> path,
                       error |-> NoError]

\* ----------------------------------------------------------- mergeObjects

\* A variant in which a's keys win: {...b, ...a}.
mergeObjectsFirstWins(a, b) == a @@ b

\* {...a, ...b}: b's keys win.
mergeObjects(a, b) == b @@ a

\* ------------------------------------------------------------------ heap

\* The object at an address is heap[address]; a new object gets the next
\* address.
NewAddress(h) == Len(h) + 1
Allocate(h, obj) == Append(h, obj)

\* this.headers as an object ({...undefined} is {}).
HeadersOf(h, r) == IF "headers" \in DOMAIN r THEN h[r.headers] ELSE EmptyObject

\* ---------------------------------------------------------------- bodies

\* A JavaScript value used as a body: [t |-> its kind, v |-> its text,
\* entries |-> its properties]. Numbers and booleans carry their literal
\* text; a plain object carries its entries <<key, string value>> in
\* insertion order.
Null == [t |-> "null", v |-> "null", entries |-> << >>]
Num(text) == [t |-> "number", v |-> text, entries |-> << >>]
Bool(text) == [t |-> "boolean", v |-> text, entries |-> << >>]
Str(text) == [t |-> "string", v |-> text, entries |-> << >>]
Obj(entries) == [t |-> "object", v |-> "", entries |-> entries]
Instance(class, content) == [t |-> class, v |-> content, entries |-> << >>]

\* ToBoolean(body)
Truthy(b) ==
    ~ \/ b.t = "null"
      \/ b.t = "number" /\ b.v \in {"0", "NaN"}
      \/ b.t = "boolean" /\ b.v = "false"
      \/ b.t = "string" /\ b.v = ""

\* typeof body === "string" || body instanceof ReadableStream || ...
IsPassthrough(b) ==
    b.t \in {"string", "ReadableStream", "FormData", "ArrayBuffer",
             "URLSearchParams"}

Quote(text) == "\"" \o text \o "\""

RECURSIVE JoinEntries(_)
JoinEntries(es) ==
    IF es = << >> THEN ""
    ELSE Quote(es[1][1]) \o ":" \o Quote(es[1][2])
         \o (IF Len(es) > 1 THEN "," ELSE "") \o JoinEntries(Tail(es))

\* JSON.stringify on the values above (an instance of a class without
\* enumerable properties serialises as "{}").
JSONStringify(b) ==
    CASE b.t = "object" -> "{" \o JoinEntries(b.entries) \o "}"
      [] b.t = "string" -> Quote(b.v)
      [] b.t \in {"number", "boolean", "null"} -> b.v
      [] OTHER -> "{}"

RECURSIVE FormEntries(_)
FormEntries(es) ==
    IF es = << >> THEN ""
    ELSE es[1][1] \o "=" \o es[1][2]
         \o (IF Len(es) > 1 THEN "&" ELSE "") \o FormEntries(Tail(es))

\* A caller-supplied encoder (form encoding), distinct from JSON.stringify.
FormEncode(b) == IF b.t = "object" THEN FormEntries(b.entries) ELSE b.v

\* Encoders and decoders are function references; a reference is modelled by
\* its name, and === by equality of names.
ApplyEncoder(encoder, b) ==
    IF encoder = "JSON.stringify" THEN JSONStringify(b) ELSE FormEncode(b)

\* --------------------------------------------------------------- Request

\* A Request is a plain object with the keys of BaseRequest that are set:
\* method, path, baseUrl, headers (an address), queryParameters, body,
\* encoder, decoder, timeout, abortSignal, hooks, and route when it was
\* spread from a structured descriptor. Its methods are the operators
\* below; each takes the heap and the receiver and returns the heap after
\* the call, the receiver after the call (self) and the returned value
\* (ret; the mutators return nothing).

createRequest(base) == base

\* A variant that adds to the object this.headers references
\* (Object.assign(this.headers, headers)) instead of replacing it.
addHeadersInPlace(h, this, headers) ==
    [heap |-> IF "headers" \in DOMAIN this
              THEN [h EXCEPT ![this.headers] = mergeObjects(@, headers)]
              ELSE Allocate(h, headers),
     self |-> IF "headers" \in DOMAIN this THEN this
              ELSE ("headers" :> NewAddress(h)) @@ this,
     ret |-> None]

\* this.headers = mergeObjects(this.headers, headers)
addHeaders(h, this, headers) ==
    [heap |-> Allocate(h, mergeObjects(HeadersOf(h, this), headers)),
     self |-> ("headers" :> NewAddress(h)) @@ this,
     ret |-> None]

\* this.headers = headers (the caller's object, allocated here)
setHeaders(h, this, headers) ==
    [heap |-> Allocate(h, headers),
     self |-> ("headers" :> NewAddress(h)) @@ this,
     ret |-> None]

\* this.queryParameters = mergeObjects(this.queryParameters, queryParameters)
addQueryParameters(h, this, queryParameters) ==
    [heap |-> h,
     self |-> ("queryParameters" :>
                 mergeObjects(OrElse(Prop(this, "queryParameters"), EmptyObject),
                              queryParameters)) @@ this,
     ret |-> None]

setQueryParameters(h, this, queryParameters) ==
    [heap |-> h, self |-> ("queryParameters" :> queryParameters) @@ this,
     ret |-> None]

setBody(h, this, body) ==
    [heap |-> h, self |-> ("body" :> body) @@ this, ret |-> None]

setEncoder(h, this, encoder) ==
    [heap |-> h, self |-> ("encoder" :> encoder) @@ this, ret |-> None]

setDecoder(h, this, decoder) ==
    [heap |-> h, self |-> ("decoder" :> decoder) @@ this, ret |-> None]

setPath(h, this, path) ==
    [heap |-> h, self |-> ("path" :> path) @@ this, ret |-> None]

setMethod(h, this, method) ==
    [heap |-> h, self |-> ("method" :> method) @@ this, ret |-> None]

setBaseUrl(h, this, baseUrl) ==
    [heap |-> h, self |-> ("baseUrl" :> baseUrl) @@ this, ret |-> None]

setTimeout(h, this, timeout) ==
    [heap |-> h, self |-> ("timeout" :> timeout) @@ this, ret |-> None]

setAbortSignal(h, this, signal) ==
    [heap |-> h, self |-> ("abortSignal" :> signal) @@ this, ret |-> None]

\* {...array}: an object keyed by the indices 0, 1, ...; an object spreads
\* to itself.
SpreadHooks(x) ==
    IF 0 \in DOMAIN x THEN x ELSE [i \in 0..(Len(x) - 1) |-> x[i + 1]]

\* merge(request): request is a Partial<Request> whose headers, when given,
\* are an object literal.
merge(h, this, request) ==
    LET newRequest == mergeObjects(this, request)
        hasHeaders == "headers" \in DOMAIN request
        withHeaders == IF hasHeaders
                       THEN ("headers" :> NewAddress(h)) @@ newRequest
                       ELSE newRequest
        withHooks ==
            IF "hooks" \in DOMAIN request
            THEN ("hooks" :>
                    mergeObjects(SpreadHooks(OrElse(Prop(this, "hooks"), << >>)),
                                 SpreadHooks(request.hooks))) @@ withHeaders
            ELSE withHeaders
    IN  [heap |-> IF hasHeaders
                  THEN Allocate(h, mergeObjects(HeadersOf(h, this),
                                                request.headers))
                  ELSE h,
         self |-> this,
         ret |-> withHooks]

\* ---------------------------------------------------------------- Result

\* The headers of a Result are either the Headers instance of the fetch
\* Response (its entries are internal: it has no own enumerable property
\* per header) or a plain object.
FetchHeaders(entries) == [class |-> "Headers", entries |-> entries,
                          own |-> EmptyObject]
PlainObject(props) == [class |-> "Object", entries |-> EmptyObject,
                       own |-> props]

\* What {...x} copies: the own enumerable properties.
OwnProperties(x) == x.own

\* The name -> value pairs a reader of the headers finds.
HeaderEntries(x) == IF x.class = "Headers" THEN x.entries ELSE x.own

createResult(base) == base

\* createResult's merge(result): result is a Partial<Result> whose headers,
\* when given, are a plain object.
mergeResult(this, result) ==
    LET newResult == mergeObjects(this, result)
    IN  [self |-> this,
         ret |-> IF "headers" \in DOMAIN result
                 THEN ("headers" :>
                         PlainObject(mergeObjects(OwnProperties(this.headers),
                                                  OwnProperties(result.headers))))
                      @@ newResult
                 ELSE newResult]

\* ----------------------------------------------------------------- hooks

\* A hook is [id, before, after]; before and after are [do, with]: which
\* method of the Request (or Result) the capability calls, and an object
\* holding the argument under the name of the field it goes to.
\* do = "none" is a hook without that capability; do = "withoutHooks" is a
\* beforeRequest that returns a copy of the Request without its hooks.
NoCapability == [do |-> "none", with |-> << >>]
Hook(id, before, after) == [id |-> id, before |-> before, after |-> after]
Do(what, arg) == [do |-> what, with |-> arg]

\* A variant in which the exception of a hook is swallowed.
beforeRequestSwallowed(h, hook, request) ==
    [heap |-> h, ret |-> request, threw |-> FALSE]

\* hook.beforeRequest(request): the heap after the call, the returned
\* Request, and whether the hook threw instead.
beforeRequest(h, hook, request) ==
    LET op == hook.before
        inPlace(r) == [heap |-> r.heap, ret |-> r.self, threw |-> FALSE]
    IN  CASE op.do = "addHeaders" ->
                inPlace(addHeaders(h, request, op.with.headers))
          [] op.do = "setHeaders" ->
                inPlace(setHeaders(h, request, op.with.headers))
          [] op.do = "addQueryParameters" ->
                inPlace(addQueryParameters(h, request, op.with.queryParameters))
          [] op.do = "setQueryParameters" ->
                inPlace(setQueryParameters(h, request, op.with.queryParameters))
          [] op.do = "setBaseUrl" ->
                inPlace(setBaseUrl(h, request, op.with.baseUrl))
          [] op.do = "setBody" -> inPlace(setBody(h, request, op.with.body))
          [] op.do = "setEncoder" ->
                inPlace(setEncoder(h, request, op.with.encoder))
          [] op.do = "setDecoder" ->
                inPlace(setDecoder(h, request, op.with.decoder))
          [] op.do = "setPath" -> inPlace(setPath(h, request, op.with.path))
          [] op.do = "setMethod" ->
                inPlace(setMethod(h, request, op.with.method))
          [] op.do = "setTimeout" ->
                inPlace(setTimeout(h, request, op.with.timeout))
          [] op.do = "setAbortSignal" ->
                inPlace(setAbortSignal(h, request, op.with.abortSignal))
          [] op.do = "merge" ->
                LET r == merge(h, request, op.with)
                IN  [heap |-> r.heap, ret |-> r.ret, threw |-> FALSE]
          [] op.do = "withoutHooks" ->
                [heap |-> h,
                 ret |-> [k \in DOMAIN request \ {"hooks"} |-> request[k]],
                 threw |-> FALSE]
          [] op.do = "throw" -> [heap |-> h, ret |-> request, threw |-> TRUE]
          [] OTHER -> [heap |-> h, ret |-> request, threw |-> FALSE]

\* hook.afterRequest(request, res): the returned Result, and whether the
\* hook threw instead.
afterRequest(hook, request, res) ==
    LET op == hook.after
    IN  CASE op.do = "merge" ->
                [ret |-> mergeResult(res, op.with).ret, threw |-> FALSE]
          [] op.do = "throw" -> [ret |-> res, threw |-> TRUE]
          [] OTHER -> [ret |-> res, threw |-> FALSE]

\* ---------------------------------------------------------- createClient

\* const global = {hooks: options?.hooks ?? [], headers: options?.headers
\* ?? {}, timeout: options?.timeout}; the timeout stays optional.
GlobalScope(opts) ==
    [hooks |-> OrElse(Prop(opts, "hooks"), << >>),
     headers |-> OrElse(Prop(opts, "headers"), EmptyObject),
     timeout |-> Prop(opts, "timeout")]

\* const res = {hooks: resource.hooks ?? [], ...}
ResourceScope(rsrc) ==
    [hooks |-> OrElse(Prop(rsrc, "hooks"), << >>),
     headers |-> OrElse(Prop(rsrc, "headers"), EmptyObject),
     timeout |-> Prop(rsrc, "timeout")]

\* A variant with the spreads swapped: {...res.headers, ...global.headers}.
resourceStandardHeadersSwapped(global, res) ==
    mergeObjects(res.headers, global.headers)

\* const resourceStandardHeaders = {...global.headers, ...res.headers}
resourceStandardHeaders(global, res) ==
    mergeObjects(global.headers, res.headers)

\* The object above is built once per resource, before any call: it is the
\* first object of the heap.
StandardHeadersAddress == 1

\* What a route constructor returns: a string or a structured descriptor.
StringRoute(text) == [type |-> "string", text |-> text, object |-> << >>]
PureRoute(obj) == [type |-> "object", text |-> << >>, object |-> obj]

\* The decodeRoute call of the route callable.
DecodeCall(result) ==
    IF result.type = "string"
    THEN decodeRoute(None, result.text)
    ELSE decodeRoute(Prop(result.object, "method"), result.object.route)

\* A variant with the operands swapped: global.timeout ?? res.timeout.
ScopeTimeoutGlobalFirst(global, res) == Coalesce(global.timeout, res.timeout)

\* timeout: res.timeout ?? global.timeout
ScopeTimeout(global, res) == Coalesce(res.timeout, global.timeout)

\* The Request of a string route: it references resourceStandardHeaders
\* itself.
StringRouteRequest(h, baseUrl, dec, global, res) ==
    [heap |-> h,
     request |->
        createRequest(
            With([headers |-> StandardHeadersAddress,
                  baseUrl |-> baseUrl,
                  method |-> dec.method,
                  path |-> dec.path,
                  decoder |-> "JSON.parse",
                  encoder |-> "JSON.stringify",
                  queryParameters |-> EmptyObject],
                 "timeout", ScopeTimeout(global, res)))]

\* The Request of a structured descriptor: {...result, headers: {...},
\* method: result.method ?? _method, path, baseUrl, timeout: ...}.
StructuredRouteRequest(h, result, baseUrl, dec, global, res) ==
    [heap |-> Allocate(h, mergeObjects(h[StandardHeadersAddress],
                                       OrElse(Prop(result, "headers"),
                                              EmptyObject))),
     request |->
        createRequest(
            With(With(("headers" :> NewAddress(h)) @@ ("path" :> dec.path)
                        @@ ("baseUrl" :> baseUrl) @@ result,
                      "method",
                      Coalesce(Prop(result, "method"), Some(dec.method))),
                 "timeout",
                 Coalesce(Prop(result, "timeout"), ScopeTimeout(global, res))))]

InitialRequest(h, result, baseUrl, dec, global, res) ==
    IF result.type = "string"
    THEN StringRouteRequest(h, baseUrl, dec, global, res)
    ELSE StructuredRouteRequest(h, result.object, baseUrl, dec, global, res)

\* A variant with the resource hooks first.
HookListResourceFirst(global, res, request) ==
    res.hooks \o global.hooks \o OrElse(Prop(request, "hooks"), << >>)

\* const hooks = [...global.hooks, ...res.hooks, ...requestHooks]
HookList(global, res, request) ==
    global.hooks \o res.hooks \o OrElse(Prop(request, "hooks"), << >>)

\* The locals read from the Request once the before stage is over.
Locals(request) ==
    [method |-> OrElse(Prop(request, "method"), GET),
     path |-> request.path,
     body |-> Prop(request, "body"),
     headers |-> Prop(request, "headers"),
     encoder |-> OrElse(Prop(request, "encoder"), "JSON.stringify"),
     decoder |-> OrElse(Prop(request, "decoder"), "JSON.parse")]

\* fullPath = request.baseUrl + (resource.prefix, when truthy) + path
FullPath(request, rsrc, path) ==
    request.baseUrl
        \o (IF Prop(rsrc, "prefix") \notin {None, Some(<< >>)}
            THEN rsrc.prefix ELSE << >>)
        \o ToStr(path)

RECURSIVE PercentEncode(_)
\* new URL(fullPath).toString() on the URLs of the model: a space of the
\* path is written %20.
PercentEncode(s) ==
    IF s = << >> THEN << >>
    ELSE (IF Head(s) = " " THEN <<"%","2","0">> ELSE <<Head(s)>>)
         \o PercentEncode(Tail(s))

\* The URL handed to fetch: the serialised path and the appended search
\* parameters (value.toString() of each; their order is not modelled).
Url(request, rsrc, path) ==
    [href |-> PercentEncode(FullPath(request, rsrc, path)),
     searchParams |->
        LET q == OrElse(Prop(request, "queryParameters"), EmptyObject)
        IN  [k \in DOMAIN q |-> q[k].v]]

\* A variant that does not look at the encoder.
AutoContentTypeAnyEncoder(h, request, encoder) ==
    "Content-Type" \notin DOMAIN HeadersOf(h, request)

\* if (encoder === JSON.stringify && request.headers?.['Content-Type']
\* === undefined)
AutoContentType(h, request, encoder) ==
    /\ encoder = "JSON.stringify"
    /\ "Content-Type" \notin DOMAIN HeadersOf(h, request)

\* The Request after the Content-Type step, and the heap.
ApplyContentType(h, request, encoder) ==
    IF AutoContentType(h, request, encoder)
    THEN LET r == merge(h, request,
                        [headers |-> ("Content-Type" :> "application/json")])
         IN  [heap |-> r.heap, request |-> r.ret]
    ELSE [heap |-> h, request |-> request]

\* body ? (passthrough ? body : encoder(body)) : undefined
FetchBody(body, encoder) ==
    IF body # None /\ Truthy(body[1])
    THEN IF IsPassthrough(body[1]) THEN body
         ELSE Some(Str(ApplyEncoder(encoder, body[1])))
    ELSE None

AbortSignalTimeout(ms) == [source |-> "AbortSignal.timeout", ms |-> ms]
CallerSignal == [source |-> "caller", ms |-> 0]

\* request.abortSignal ?? (request.timeout ? AbortSignal.timeout(...) :
\* undefined)
FetchSignal(request) ==
    Coalesce(Prop(request, "abortSignal"),
             IF Prop(request, "timeout") \notin {None, Some(0)}
             THEN Some(AbortSignalTimeout(request.timeout)) ELSE None)

\* The arguments of fetch(url, {method, body, headers, signal}); headers is
\* the object the local of that name references, as it is at the call.
FetchArguments(h, request, rsrc, locals) ==
    [url |-> Url(request, rsrc, locals.path),
     method |-> locals.method,
     body |-> FetchBody(locals.body, locals.encoder),
     headers |-> IF locals.headers = None THEN None
                 ELSE Some(h[locals.headers[1]]),
     signal |-> FetchSignal(request)]

\* ------------------------------------------------------ response decoding

SyntaxError == [name |-> "SyntaxError", token |-> << >>, route |-> << >>]
FormatError == [name |-> "FormatError", token |-> << >>, route |-> << >>]
TransportError == [name |-> "TypeError: fetch failed", token |-> << >>,
                   route |-> << >>]
HookError(id) == [name |-> "HookError", token |-> <<id>>, route |-> << >>]

\* What the signal rejects fetch with when it fires.
SignalError(signal) ==
    [name |-> IF signal.source = "AbortSignal.timeout" THEN "TimeoutError"
              ELSE "AbortError",
     token |-> << >>, route |-> << >>]

\* res.json() on the response texts of the model: the parsed value, or the
\* SyntaxError thrown.
JSONParse(text) ==
    CASE text = "{\"ok\":\"yes\"}" ->
            [ok |-> TRUE, data |-> Obj(<<<<"ok", "yes">>>>), error |-> NoError]
      [] text = "7" -> [ok |-> TRUE, data |-> Num("7"), error |-> NoError]
      [] OTHER -> [ok |-> FALSE, data |-> Null, error |-> SyntaxError]

\* A caller-supplied decoder (form decoding), distinct from JSON.parse.
FormDecode(text) ==
    CASE text = "a=1" ->
            [ok |-> TRUE, data |-> Obj(<<<<"a", "1">>>>), error |-> NoError]
      [] OTHER -> [ok |-> FALSE, data |-> Null, error |-> FormatError]

\* decoder === JSON.parse ? await res.json() : await res.text().then(decoder)
DecodeResponse(decoder, text) ==
    IF decoder = "JSON.parse" THEN JSONParse(text) ELSE FormDecode(text)

\* createResult({headers: res.headers, statusCode: res.status, data})
ResultOf(response, data) ==
    createResult([headers |-> FetchHeaders(response.headers),
                  statusCode |-> response.status,
                  data |-> data])

\* ---------------------------------------------------------------- inputs

\* The number of calls in flight together in SpecConcurrent.
MaxCalls == 2

BaseUrl == <<"h","t","t","p",":","/","/","h">>
Space == <<" ">>
UsersPath == <<"/","u","s","e","r","s">>
ApiPrefix == <<"/","a","p","i">>

UserBody == Obj(<<<<"name", "a">>>>)

\* Bodies of every kind the fetch call distinguishes.
Bodies ==
    <<UserBody, Null, Num("0"), Num("7"), Bool("false"), Bool("true"),
      Str(""), Str("raw"), Instance("ArrayBuffer", "bytes"),
      Instance("FormData", "form"), Instance("URLSearchParams", "a=1"),
      Instance("ReadableStream", "stream")>>

HeaderA1 == "A" :> "1"
HeaderA2B3 == ("A" :> "2") @@ ("B" :> "3")
HeaderB4 == "B" :> "4"

\* Hooks of the three scopes. X-Trace is overwritten by every hook that
\* has the before capability, X-After by every one that has the after one.
G1 == Hook("G1", Do("addHeaders", [headers |-> ("X-Trace" :> "G1")]),
           Do("merge", [headers |-> PlainObject("X-After" :> "G1")]))
G2 == Hook("G2", NoCapability, Do("merge", [data |-> Str("G2")]))
R1 == Hook("R1", Do("merge", [headers |-> ("X-Trace" :> "R1")]),
           Do("merge", [headers |-> PlainObject("X-After" :> "R1")]))
R2 == Hook("R2", Do("setHeaders", [headers |-> ("X-Only" :> "R2")]),
           NoCapability)
Q1 == Hook("Q1", Do("addHeaders", [headers |-> ("X-Trace" :> "Q1")]),
           Do("merge", [headers |-> PlainObject("X-After" :> "Q1")]))
QEncoder == Hook("QEncoder", Do("setEncoder", [encoder |-> "formEncode"]), NoCapability)
QDecoder == Hook("QDecoder", Do("setDecoder", [decoder |-> "formDecode"]), NoCapability)
QBody == Hook("QBody", Do("setBody", [body |-> Num("7")]), NoCapability)
QContentType == Hook("QContentType",
                     Do("merge", [headers |-> ("Content-Type" :> "text/xml")]),
                     NoCapability)
QSetHeaders == Hook("QSetHeaders", Do("setHeaders", [headers |-> ("Z" :> "1")]),
                    NoCapability)
QAddA == Hook("QAddA", Do("addHeaders", [headers |-> ("A" :> "9")]),
              NoCapability)
QThrowBefore == Hook("QThrowBefore", Do("throw", EmptyObject), NoCapability)
QThrowAfter == Hook("QThrowAfter", NoCapability, Do("throw", EmptyObject))
QMergeHooks == Hook("QMergeHooks", Do("merge", [hooks |-> <<G2>>]),
                    NoCapability)
QSignal == Hook("QSignal", Do("setAbortSignal", [abortSignal |-> CallerSignal]), NoCapability)
QTimeout == Hook("QTimeout", Do("setTimeout", [timeout |-> 5]), NoCapability)
QDropHooks == Hook("QDropHooks", Do("withoutHooks", EmptyObject),
                   NoCapability)
QMethod == Hook("QMethod", Do("setMethod", [method |-> PUT]), NoCapability)
QPath == Hook("QPath", Do("setPath", [path |-> <<"/","v","2">>]), NoCapability)
QQuery == Hook("QQuery",
               Do("addQueryParameters",
                  [queryParameters |-> ("page" :> Num("3"))]),
               NoCapability)
QBaseUrl == Hook("QBaseUrl", Do("setBaseUrl", [baseUrl |-> BaseUrl \o <<"2">>]),
                 NoCapability)

\* Default configuration: no options, a resource with routes only.
DefaultRoutes ==
    <<StringRoute(UsersPath),
      StringRoute(POST \o Space \o UsersPath),
      StringRoute(<<"g","e","t">> \o Space \o UsersPath),
      StringRoute(<<"F","E","T","C","H">> \o Space \o UsersPath),
      PureRoute([route |-> UsersPath]),
      PureRoute([route |-> UsersPath, method |-> POST]),
      PureRoute([route |-> PUT \o Space \o UsersPath, method |-> POST]),
      PureRoute([route |-> UsersPath,
                 queryParameters |-> ("page" :> Num("2"))])>>
    \o [i \in 1..Len(Bodies) |->
          PureRoute([route |-> POST \o Space \o UsersPath,
                     body |-> Bodies[i]])]

DefaultFamily ==
    {[options |-> EmptyObject, resource |-> [routes |-> DefaultRoutes]]}

\* Headers at every layer.
HeaderRoutes ==
    <<StringRoute(UsersPath),
      PureRoute([route |-> POST \o Space \o UsersPath, body |-> UserBody]),
      PureRoute([route |-> POST \o Space \o UsersPath, body |-> UserBody,
                 headers |-> HeaderB4]),
      PureRoute([route |-> POST \o Space \o UsersPath, body |-> UserBody,
                 headers |-> ("Content-Type" :> "text/csv")]),
      PureRoute([route |-> POST \o Space \o UsersPath, body |-> UserBody,
                 hooks |-> <<QContentType>>]),
      PureRoute([route |-> POST \o Space \o UsersPath, body |-> UserBody,
                 hooks |-> <<QEncoder>>]),
      PureRoute([route |-> POST \o Space \o UsersPath, body |-> UserBody,
                 headers |-> HeaderB4, hooks |-> <<QAddA, QSetHeaders>>]),
      PureRoute([route |-> POST \o Space \o UsersPath, body |-> UserBody,
                 headers |-> HeaderB4, hooks |-> <<QSetHeaders, QAddA>>])>>

HeaderFamily ==
    {[options |-> o, resource |-> With([routes |-> HeaderRoutes], "headers", r)] :
        o \in {EmptyObject, [headers |-> HeaderA1],
               [headers |-> ("Content-Type" :> "text/plain")]},
        r \in {None, Some(HeaderA2B3),
               Some("Content-Type" :> "text/html")}}

\* Timeouts at every layer.
TimeoutRoutes ==
    <<StringRoute(UsersPath),
      PureRoute([route |-> UsersPath]),
      PureRoute([route |-> UsersPath, timeout |-> 0]),
      PureRoute([route |-> UsersPath, timeout |-> 10]),
      PureRoute([route |-> UsersPath, hooks |-> <<QSignal>>]),
      PureRoute([route |-> UsersPath, hooks |-> <<QTimeout>>])>>

TimeoutFamily ==
    {[options |-> With(EmptyObject, "timeout", g),
      resource |-> With([routes |-> TimeoutRoutes], "timeout", r)] :
        g \in {None, Some(0), Some(30)}, r \in {None, Some(0), Some(20)}}

\* Hooks at every layer.
HookRoutes ==
    <<StringRoute(UsersPath),
      StringRoute(<<"f","e","t","c","h">> \o Space \o UsersPath),
      PureRoute([route |-> POST \o Space \o UsersPath, body |-> UserBody,
                 hooks |-> <<Q1>>]),
      PureRoute([route |-> POST \o Space \o UsersPath, body |-> UserBody,
                 hooks |-> <<QEncoder, Q1, QDecoder>>]),
      PureRoute([route |-> POST \o Space \o UsersPath, body |-> UserBody,
                 hooks |-> <<QBody, QThrowBefore, Q1>>]),
      PureRoute([route |-> POST \o Space \o UsersPath, body |-> UserBody,
                 hooks |-> <<Q1, QThrowAfter, QAddA>>]),
      PureRoute([route |-> POST \o Space \o UsersPath,
                 hooks |-> <<QMergeHooks, Q1>>]),
      PureRoute([route |-> POST \o Space \o UsersPath,
                 hooks |-> <<QDropHooks, Q1>>]),
      PureRoute([route |-> POST \o Space \o UsersPath, body |-> UserBody,
                 hooks |-> <<QMethod, QPath, QQuery, QBaseUrl, QBody>>])>>

HookFamily ==
    {[options |-> With(EmptyObject, "hooks", g),
      resource |-> With(With([routes |-> HookRoutes], "hooks", r),
                        "prefix", p)] :
        g \in {None, Some(<<G1>>), Some(<<G1, G2>>)},
        r \in {None, Some(<<R1>>), Some(<<R2, R1>>)},
        p \in {None, Some(ApiPrefix)}}

Configurations == DefaultFamily \cup HeaderFamily \cup TimeoutFamily
                  \cup HookFamily

\* The configurations of the concurrent calls: shared headers and hooks at
\* both scopes, and routes whose hooks use every way of changing headers.
ConcurrentRoutes ==
    <<StringRoute(POST \o Space \o UsersPath),
      PureRoute([route |-> UsersPath, headers |-> HeaderB4, timeout |-> 10,
                 hooks |-> <<QSetHeaders, QAddA>>]),
      PureRoute([route |-> UsersPath, hooks |-> <<QThrowBefore>>])>>

ConcurrentFamily ==
    {[options |-> [headers |-> HeaderA1, hooks |-> <<G1>>],
      resource |-> With([routes |-> ConcurrentRoutes, headers |-> HeaderA2B3],
                        "hooks", r)] :
        r \in {None, Some(<<R1>>)}}

\* What fetch can answer.
Responses ==
    {[status |-> 200, headers |-> ("ETag" :> "v1"),
      text |-> "{\"ok\":\"yes\"}"],
     [status |-> 200, headers |-> ("ETag" :> "v2"), text |-> "a=1"],
     [status |-> 500, headers |-> EmptyObject, text |-> "oops"]}

NoResponse == [status |-> 0, headers |-> EmptyObject, text |-> ""]

\* ----------------------------------------------------------------- state

VARIABLES
    options,    \* createClient's options argument
    resource,   \* the resource of config the calls go to
    ncalls,     \* how many calls the callers make
    heap,       \* the headers objects
    running,    \* the call whose synchronous code is running (0: none)
    pc,         \* per call: where the route callable is
    route,      \* per call: what routeDef._constructor returned
    request,    \* per call: the local `request`
    hooks,      \* per call: the local `hooks`
    next,       \* per call: the index of the for-of loop over hooks
    locals,     \* per call: method, path, body, headers, encoder, decoder
    sent,       \* per call: the arguments fetch was called with
    response,   \* per call: the Response fetch resolved with
    result,     \* per call: the Result being folded, then returned
    error,      \* per call: what the returned promise is rejected with
    log,        \* per call: the calls made, in order (observation only)
    late,       \* per call: the timeout of the Request has run out since
                \* fetch was called
    probe,      \* the arguments of a function applied on its own
    outcome     \* what that function returned

vars == <<options, resource, ncalls, heap, running, pc, route, request, hooks,
          next, locals, sent, response, result, error, log, late, probe,
          outcome>>

config == <<options, resource, ncalls>>
unit == <<probe, outcome>>

Calls == 1..MaxCalls

global == GlobalScope(options)
res == ResourceScope(resource)

\* One observed call: which function, of which hook, with which argument
\* and return value, and the headers of the returned Request.
Event(ev, id, arg, ret, headers) ==
    [ev |-> ev, hook |-> id, arg |-> arg, ret |-> ret, headers |-> headers]

\* No call has been made.
InitIdle ==
    /\ running = 0
    /\ pc = [c \in Calls |-> "idle"]
    /\ route = [c \in Calls |-> StringRoute(<< >>)]
    /\ request = [c \in Calls |-> EmptyObject]
    /\ hooks = [c \in Calls |-> << >>]
    /\ next = [c \in Calls |-> 1]
    /\ locals = [c \in Calls |-> EmptyObject]
    /\ sent = [c \in Calls |-> EmptyObject]
    /\ response = [c \in Calls |-> NoResponse]
    /\ result = [c \in Calls |-> EmptyObject]
    /\ error = [c \in Calls |-> NoError]
    /\ log = [c \in Calls |-> << >>]
    /\ late = [c \in Calls |-> FALSE]

\* The client has been created: the heap holds resourceStandardHeaders.
InitCalls ==
    /\ heap = <<resourceStandardHeaders(global, res)>>
    /\ InitIdle

NoProbe == [fn |-> "none"]

\* One call at a time, under every configuration.
Init ==
    /\ \E cfg \in Configurations :
          options = cfg.options /\ resource = cfg.resource
    /\ ncalls = 1
    /\ InitCalls
    /\ probe = NoProbe /\ outcome = NoProbe

\* MaxCalls calls of one client.
InitConcurrent ==
    /\ \E cfg \in ConcurrentFamily :
          options = cfg.options /\ resource = cfg.resource
    /\ ncalls = MaxCalls
    /\ InitCalls
    /\ probe = NoProbe /\ outcome = NoProbe

\* --------------------------------------------------------------- actions

\* The promise of call c is rejected with e; its synchronous code ends.
Reject(c, e) ==
    /\ pc' = [pc EXCEPT ![c] = "rejected"]
    /\ error' = [error EXCEPT ![c] = e]
    /\ running' = 0

\* The route callable is called: constructor, decodeRoute, createRequest,
\* the hook list.
Start(c) ==
    /\ c <= ncalls /\ pc[c] = "idle" /\ running = 0
    /\ \E i \in 1..Len(resource.routes) :
          LET r == resource.routes[i]
              dec == DecodeCall(r)
              built == InitialRequest(heap, r, BaseUrl, dec, global, res)
          IN  /\ route' = [route EXCEPT ![c] = r]
              /\ IF dec.ok
                 THEN /\ heap' = built.heap
                      /\ request' = [request EXCEPT ![c] = built.request]
                      /\ hooks' = [hooks EXCEPT
                                     ![c] = HookList(global, res, built.request)]
                      /\ log' = [log EXCEPT ![c] =
                                  <<Event("createRequest", "", r, built.request,
                                          HeadersOf(built.heap, built.request))>>]
                      /\ pc' = [pc EXCEPT ![c] = "before"]
                      /\ running' = c
                      /\ UNCHANGED error
                 ELSE /\ Reject(c, dec.error)
                      /\ UNCHANGED <<heap, request, hooks, log>>
    /\ UNCHANGED <<config, unit, late, next, locals, sent, response, result>>

\* One iteration of the before loop.
BeforeHook(c) ==
    /\ pc[c] = "before" /\ running = c /\ next[c] <= Len(hooks[c])
    /\ LET hook == hooks[c][next[c]]
           r == beforeRequest(heap, hook, request[c])
       IN  IF hook.before.do = "none"
           THEN UNCHANGED <<heap, request, log, pc, error, running>>
           ELSE IF r.threw
           THEN /\ Reject(c, HookError(hook.id))
                /\ log' = [log EXCEPT ![c] =
                            Append(@, Event("beforeRequest", hook.id,
                                            request[c], EmptyObject,
                                            EmptyObject))]
                /\ UNCHANGED <<heap, request>>
           ELSE /\ heap' = r.heap
                /\ request' = [request EXCEPT ![c] = r.ret]
                /\ log' = [log EXCEPT ![c] =
                            Append(@, Event("beforeRequest", hook.id,
                                            request[c], r.ret,
                                            HeadersOf(r.heap, r.ret)))]
                /\ UNCHANGED <<pc, error, running>>
    /\ next' = [next EXCEPT ![c] = @ + 1]
    /\ UNCHANGED <<config, unit, late, route, hooks, locals, sent, response, result>>

\* A variant that does not wait for the end of the loop.
SendEarly(c) ==
    /\ pc[c] = "before" /\ running = c
    /\ LET l == Locals(request[c])
           ct == ApplyContentType(heap, request[c], l.encoder)
           args == FetchArguments(ct.heap, ct.request, resource, l)
       IN  /\ locals' = [locals EXCEPT ![c] = l]
           /\ heap' = ct.heap
           /\ request' = [request EXCEPT ![c] = ct.request]
           /\ sent' = [sent EXCEPT ![c] = args]
           /\ log' = [log EXCEPT ![c] =
                       Append(@, Event("fetch", "", request[c], ct.request,
                                       HeadersOf(ct.heap, ct.request)))]
    /\ pc' = [pc EXCEPT ![c] = "fetching"]
    /\ running' = 0
    /\ UNCHANGED <<config, unit, late, route, hooks, next, response, result,
                   error>>

\* After the loop: the locals, the URL, the Content-Type step and fetch.
Send(c) ==
    /\ pc[c] = "before" /\ running = c /\ next[c] > Len(hooks[c])
    /\ LET l == Locals(request[c])
           ct == ApplyContentType(heap, request[c], l.encoder)
           args == FetchArguments(ct.heap, ct.request, resource, l)
       IN  /\ locals' = [locals EXCEPT ![c] = l]
           /\ heap' = ct.heap
           /\ request' = [request EXCEPT ![c] = ct.request]
           /\ sent' = [sent EXCEPT ![c] = args]
           /\ log' = [log EXCEPT ![c] =
                       Append(@, Event("fetch", "", request[c], ct.request,
                                       HeadersOf(ct.heap, ct.request)))]
    /\ pc' = [pc EXCEPT ![c] = "fetching"]
    /\ running' = 0
    /\ UNCHANGED <<config, unit, late, route, hooks, next, response, result, error>>

\* How the promise of fetch can settle: a response, a network failure, or
\* the caller aborting through the signal it supplied (the signal of
\* AbortSignal.timeout fires in Elapse).
Settlements(args) ==
    {[kind |-> "response", response |-> r] : r \in Responses}
    \cup {[kind |-> "failure", response |-> NoResponse]}
    \cup (IF args.signal = Some(CallerSignal)
          THEN {[kind |-> "abort", response |-> NoResponse]} ELSE {})

\* fetch settles: the first then-callback starts reading the body, or the
\* rejection passes through both then-callbacks.
Settle(c) ==
    /\ pc[c] = "fetching" /\ running = 0
    /\ \E s \in Settlements(sent[c]) :
          IF s.kind = "response"
          THEN /\ response' = [response EXCEPT ![c] = s.response]
               /\ pc' = [pc EXCEPT ![c] = "decoding"]
               /\ UNCHANGED <<error, running>>
          ELSE /\ Reject(c, IF s.kind = "abort"
                             THEN SignalError(sent[c].signal[1])
                             ELSE TransportError)
               /\ UNCHANGED response
    /\ UNCHANGED <<config, unit, late, heap, route, request, hooks, next, locals,
                   sent, result, log>>

\* The timeout of the Request runs out while fetch or the reading of the
\* body is pending. If fetch was given the signal of AbortSignal.timeout,
\* the signal fires and the pending promise is rejected with its error;
\* otherwise nothing happens to the call.
Elapse(c) ==
    /\ pc[c] \in {"fetching", "decoding"} /\ running = 0
    /\ Prop(request[c], "timeout") # None
    /\ ~late[c]
    /\ late' = [late EXCEPT ![c] = TRUE]
    /\ IF sent[c].signal # None /\ sent[c].signal[1].source = "AbortSignal.timeout"
       THEN Reject(c, SignalError(sent[c].signal[1]))
       ELSE UNCHANGED <<pc, error, running>>
    /\ UNCHANGED <<config, unit, heap, route, request, hooks, next, locals,
                   sent, response, result, log>>

\* The body has been read: the Result is created, or the decoding error
\* rejects the call.
Decode(c) ==
    /\ pc[c] = "decoding" /\ running = 0
    /\ LET d == DecodeResponse(locals[c].decoder, response[c].text)
       IN  IF d.ok
           THEN /\ result' = [result EXCEPT ![c] = ResultOf(response[c], d.data)]
                /\ log' = [log EXCEPT ![c] =
                            Append(@, Event("createResult", "", response[c],
                                            ResultOf(response[c], d.data),
                                            EmptyObject))]
                /\ pc' = [pc EXCEPT ![c] = "after"]
                /\ next' = [next EXCEPT ![c] = 1]
                /\ UNCHANGED <<error, running>>
           ELSE /\ Reject(c, d.error)
                /\ UNCHANGED <<result, log, next>>
    /\ UNCHANGED <<config, unit, late, heap, route, request, hooks, locals, sent,
                   response>>

\* The hook list as it would be if built from the Request of now (its
\* hooks taken as an array).
HookListNow(c) ==
    LET x == OrElse(Prop(request[c], "hooks"), << >>)
    IN  global.hooks \o res.hooks
          \o (IF 0 \in DOMAIN x
              THEN [k \in 1..Cardinality(DOMAIN x) |-> x[k - 1]] ELSE x)

\* A variant whose loop goes over the hooks the Request has now.
AfterHookOfCurrentRequest(c) ==
    /\ pc[c] = "after" /\ running \in {0, c}
    /\ next[c] <= Len(HookListNow(c))
    /\ LET hook == HookListNow(c)[next[c]]
           r == afterRequest(hook, request[c], result[c])
       IN  IF hook.after.do = "none"
           THEN /\ running' = c
                /\ UNCHANGED <<result, log, pc, error>>
           ELSE IF r.threw
           THEN /\ Reject(c, HookError(hook.id))
                /\ log' = [log EXCEPT ![c] =
                            Append(@, Event("afterRequest", hook.id, result[c],
                                            EmptyObject, EmptyObject))]
                /\ UNCHANGED result
           ELSE /\ result' = [result EXCEPT ![c] = r.ret]
                /\ log' = [log EXCEPT ![c] =
                            Append(@, Event("afterRequest", hook.id, result[c],
                                            r.ret, EmptyObject))]
                /\ running' = c
                /\ UNCHANGED <<pc, error>>
    /\ next' = [next EXCEPT ![c] = @ + 1]
    /\ UNCHANGED <<config, unit, late, heap, route, request, hooks, locals, sent,
                   response>>

\* One iteration of the after loop (the second then-callback).
AfterHook(c) ==
    /\ pc[c] = "after" /\ running \in {0, c} /\ next[c] <= Len(hooks[c])
    /\ LET hook == hooks[c][next[c]]
           r == afterRequest(hook, request[c], result[c])
       IN  IF hook.after.do = "none"
           THEN /\ running' = c
                /\ UNCHANGED <<result, log, pc, error>>
           ELSE IF r.threw
           THEN /\ Reject(c, HookError(hook.id))
                /\ log' = [log EXCEPT ![c] =
                            Append(@, Event("afterRequest", hook.id, result[c],
                                            EmptyObject, EmptyObject))]
                /\ UNCHANGED result
           ELSE /\ result' = [result EXCEPT ![c] = r.ret]
                /\ log' = [log EXCEPT ![c] =
                            Append(@, Event("afterRequest", hook.id, result[c],
                                            r.ret, EmptyObject))]
                /\ running' = c
                /\ UNCHANGED <<pc, error>>
    /\ next' = [next EXCEPT ![c] = @ + 1]
    /\ UNCHANGED <<config, unit, late, heap, route, request, hooks, locals, sent,
                   response>>

\* The after loop is over: the promise resolves with the Result.
Finish(c) ==
    /\ pc[c] = "after" /\ running \in {0, c} /\ next[c] > Len(hooks[c])
    /\ pc' = [pc EXCEPT ![c] = "resolved"]
    /\ running' = 0
    /\ UNCHANGED <<config, unit, late, heap, route, request, hooks, next, locals,
                   sent, response, result, error, log>>

Next ==
    \E c \in Calls :
        \/ Start(c)
        \/ BeforeHook(c)
        \/ Send(c)
        \/ Settle(c)
        \/ Elapse(c)
        \/ Decode(c)
        \/ AfterHook(c)
        \/ Finish(c)

Spec == Init /\ [][Next]_vars

SpecConcurrent == InitConcurrent /\ [][Next]_vars

\* ------------------------------------------------- decodeRoute on its own

\* Method tokens as written in a route, each with the supported verb it
\* spells case-insensitively (<< >> when it spells none).
Tokens ==
    {[text |-> GET, verb |-> GET],
     [text |-> <<"g","e","t">>, verb |-> GET],
     [text |-> <<"G","e","t">>, verb |-> GET],
     [text |-> POST, verb |-> POST],
     [text |-> <<"p","o","s","t">>, verb |-> POST],
     [text |-> <<"p","O","s","T">>, verb |-> POST],
     [text |-> PUT, verb |-> PUT],
     [text |-> <<"p","u","t">>, verb |-> PUT],
     [text |-> DELETE, verb |-> DELETE],
     [text |-> <<"d","e","l","e","t","e">>, verb |-> DELETE],
     [text |-> <<"D","e","l","e","t","E">>, verb |-> DELETE],
     [text |-> PATCH, verb |-> PATCH],
     [text |-> <<"p","a","t","c","h">>, verb |-> PATCH],
     [text |-> <<"H","E","A","D">>, verb |-> << >>],
     [text |-> <<"f","e","t","c","h">>, verb |-> << >>],
     [text |-> <<"G","E","T","S">>, verb |-> << >>],
     [text |-> <<"G","E">>, verb |-> << >>],
     [text |-> << >>, verb |-> << >>]}

\* Paths as written in a route: plain, empty, and with spaces inside.
Paths ==
    {UsersPath, <<"/">>, << >>, <<"/","a"," ","b">>,
     <<"/","a"," ","b"," ","c">>, <<"/","a"," ">>}

\* The routes: a bare text without a space, or a token, a space and a path.
RouteInputs ==
    {[bare |-> TRUE, token |-> t, path |-> t.text, route |-> t.text] :
        t \in Tokens}
    \cup {[bare |-> TRUE, token |-> [text |-> << >>, verb |-> << >>],
           path |-> p, route |-> p] : p \in {UsersPath, <<"/">>}}
    \cup {[bare |-> FALSE, token |-> t, path |-> p,
           route |-> t.text \o Space \o p] : t \in Tokens, p \in Paths}

\* The method argument: undefined (a string route, or a descriptor without
\* method) or the descriptor's method.
MethodInputs == {None, Some(GET), Some(POST), Some(DELETE)}

InitDecode ==
    /\ options = EmptyObject /\ resource = [routes |-> << >>]
    /\ ncalls = 0
    /\ InitCalls
    /\ \E r \in RouteInputs, m \in MethodInputs :
          probe = [fn |-> "decodeRoute", method |-> m, input |-> r]
    /\ outcome = NoProbe

DecodeRouteStep ==
    /\ outcome = NoProbe
    /\ outcome' = decodeRoute(probe.method, probe.input.route)
    /\ UNCHANGED <<config, probe, late, heap, running, pc, route, request, hooks,
                   next, locals, sent, response, result, error, log>>

SpecDecode == InitDecode /\ [][DecodeRouteStep]_vars

\* ------------------------------------------------------ merge on its own

\* Header objects of a receiver, and of the argument of merge.
ReceiverHeaders ==
    {EmptyObject, HeaderA1, HeaderA2B3, "Content-Type" :> "text/plain"}
ArgumentHeaders ==
    {EmptyObject, "X" :> "1", "A" :> "9", ("B" :> "4") @@ ("X" :> "1")}

\* Requests as createRequest returns them for a string route and for a
\* structured descriptor; their headers object is the first of the heap.
RequestReceivers ==
    {createRequest([headers |-> 1, baseUrl |-> BaseUrl, method |-> GET,
                    path |-> UsersPath, decoder |-> "JSON.parse",
                    encoder |-> "JSON.stringify",
                    queryParameters |-> EmptyObject]),
     createRequest([headers |-> 1, baseUrl |-> BaseUrl, method |-> POST,
                    path |-> UsersPath, route |-> POST \o Space \o UsersPath,
                    body |-> UserBody, timeout |-> 10, hooks |-> <<Q1, QBody>>])}

\* What a Partial<Request> can hold beside headers.
RequestPartials ==
    {EmptyObject, [timeout |-> 5], [body |-> Str("raw"), method |-> PUT],
     [hooks |-> <<G2>>], [hooks |-> <<G2, G1, R1>>, timeout |-> 0]}

\* Results as the call creates them (the headers of the fetch Response) and
\* as an earlier merge returned them (a plain object).
ResultReceivers(m) ==
    {ResultOf([status |-> 200, headers |-> m, text |-> "7"], Num("7")),
     createResult([headers |-> PlainObject(m), statusCode |-> 200,
                   data |-> Num("7")])}

ResultPartials == {EmptyObject, [data |-> Str("G2")], [statusCode |-> 204]}

InitMerge ==
    /\ options = EmptyObject /\ resource = [routes |-> << >>]
    /\ ncalls = 0
    /\ InitIdle
    /\ outcome = NoProbe
    /\ \E m \in ReceiverHeaders :
          /\ heap = <<m>>
          /\ \/ \E r \in RequestReceivers, p \in RequestPartials,
                   a \in {None} \cup {Some(x) : x \in ArgumentHeaders} :
                    probe = [fn |-> "Request.merge", this |-> r,
                             arg |-> With(p, "headers", a), headers |-> m]
             \/ \E r \in ResultReceivers(m), p \in ResultPartials,
                   a \in {None} \cup {Some(PlainObject(x)) : x \in ArgumentHeaders} :
                    probe = [fn |-> "Result.merge", this |-> r,
                             arg |-> With(p, "headers", a), headers |-> m]

RequestMergeStep ==
    /\ probe.fn = "Request.merge" /\ outcome = NoProbe
    /\ LET r == merge(heap, probe.this, probe.arg)
       IN  /\ heap' = r.heap
           /\ outcome' = [self |-> r.self, ret |-> r.ret]
    /\ UNCHANGED <<config, probe, late, running, pc, route, request, hooks, next,
                   locals, sent, response, result, error, log>>

ResultMergeStep ==
    /\ probe.fn = "Result.merge" /\ outcome = NoProbe
    /\ LET r == mergeResult(probe.this, probe.arg)
       IN  outcome' = [self |-> r.self, ret |-> r.ret]
    /\ UNCHANGED <<config, probe, late, heap, running, pc, route, request, hooks,
                   next, locals, sent, response, result, error, log>>

SpecMerge == InitMerge /\ [][RequestMergeStep \/ ResultMergeStep]_vars

\* ================================================================ claims

\* What the claims read from the observation of a call.
Started(c) == log[c] # << >>
HasSent(c) == sent[c] # EmptyObject
EventsOf(c, ev) == SelectSeq(log[c], LAMBDA e : e.ev = ev)
FetchIndex(c) == CHOOSE k \in 1..Len(log[c]) : log[c][k].ev = "fetch"

\* The Request as the before stage left it, and its headers.
RequestAfterBefore(c) == log[c][FetchIndex(c)].arg
HeadersAfterBefore(c) == log[c][FetchIndex(c) - 1].headers

\* The hooks as configured, in the order global, resource, descriptor.
DescriptorField(c, k) ==
    IF route[c].type = "object" THEN Prop(route[c].object, k) ELSE None
ConfiguredHooks(c) ==
    OrElse(Prop(options, "hooks"), << >>)
        \o OrElse(Prop(resource, "hooks"), << >>)
        \o OrElse(DescriptorField(c, "hooks"), << >>)
HooksWith(capability, hs) ==
    SelectSeq(hs, LAMBDA h : h[capability].do # "none")
IsPrefix(a, b) == Len(a) <= Len(b) /\ \A i \in 1..Len(a) : a[i] = b[i]

\* The header layers of a call, lowest precedence first: global, resource,
\* descriptor, then what each of the first n before-capable hooks sets.
\* A layer is [set |-> name -> value, replace |-> whether it was installed
\* with setHeaders, which drops all earlier layers].
HookLayer(hook) ==
    LET op == hook.before
    IN  CASE op.do \in {"addHeaders", "merge"} /\ "headers" \in DOMAIN op.with ->
                [set |-> op.with.headers, replace |-> FALSE]
          [] op.do = "setHeaders" -> [set |-> op.with.headers, replace |-> TRUE]
          [] OTHER -> [set |-> EmptyObject, replace |-> FALSE]
HeaderLayers(c, n) ==
    LET hs == HooksWith("before", ConfiguredHooks(c))
    IN  <<[set |-> OrElse(Prop(options, "headers"), EmptyObject),
           replace |-> FALSE],
          [set |-> OrElse(Prop(resource, "headers"), EmptyObject),
           replace |-> FALSE],
          [set |-> OrElse(DescriptorField(c, "headers"), EmptyObject),
           replace |-> FALSE]>>
        \o [i \in 1..n |-> HookLayer(hs[i])]

\* headers is the layering of ls: every name of a live layer, each with the
\* value of the last live layer that has it. The live layers are those from
\* the last replacing one on.
IsLayering(headers, ls) ==
    LET first == IF \E i \in 1..Len(ls) : ls[i].replace
                 THEN CHOOSE i \in 1..Len(ls) :
                        ls[i].replace /\ \A j \in (i + 1)..Len(ls) : ~ls[j].replace
                 ELSE 1
        live == first..Len(ls)
        last(n) == CHOOSE i \in live :
                      /\ n \in DOMAIN ls[i].set
                      /\ \A j \in live : j > i => n \notin DOMAIN ls[j].set
    IN  /\ DOMAIN headers = UNION {DOMAIN ls[i].set : i \in live}
        /\ \A n \in DOMAIN headers : headers[n] = ls[last(n)].set[n]

UsersCall == PureRoute([route |-> POST \o Space \o UsersPath,
                        body |-> UserBody])

\* C1: with the default configuration, the call of route "POST /users" with
\* body {"name":"a"} invokes fetch with method POST, URL baseUrl + "/users",
\* body '{"name":"a"}' and a Content-Type: application/json header.
C1_EndToEnd ==
    \A c \in Calls :
        (HasSent(c) /\ options = EmptyObject /\ DOMAIN resource = {"routes"}
            /\ route[c] = UsersCall)
        => /\ sent[c].method = POST
           /\ sent[c].url.href = BaseUrl \o UsersPath
           /\ sent[c].body = Some(Str("{\"name\":\"a\"}"))
           /\ sent[c].headers # None
           /\ Prop(sent[c].headers[1], "Content-Type")
                = Some("application/json")

\* C2: the beforeRequest capabilities run in the order global, resource,
\* descriptor hooks, each on the Request the previous one returned (hooks
\* without the capability are skipped), all of them before fetch; the
\* afterRequest capabilities fold the Result in the same order.
C2_HookOrder ==
    \A c \in Calls :
        LET before == EventsOf(c, "beforeRequest")
            after == EventsOf(c, "afterRequest")
            wantBefore == HooksWith("before", ConfiguredHooks(c))
            wantAfter == HooksWith("after", ConfiguredHooks(c))
        IN  /\ IsPrefix([i \in 1..Len(before) |-> before[i].hook],
                        [i \in 1..Len(wantBefore) |-> wantBefore[i].id])
            /\ IsPrefix([i \in 1..Len(after) |-> after[i].hook],
                        [i \in 1..Len(wantAfter) |-> wantAfter[i].id])
            /\ \A i \in 1..Len(before) :
                    before[i].arg = IF i = 1 THEN log[c][1].ret
                                    ELSE before[i - 1].ret
            /\ \A i \in 1..Len(after) :
                    after[i].arg = IF i = 1 THEN EventsOf(c, "createResult")[1].ret
                                   ELSE after[i - 1].ret
            /\ HasSent(c) => Len(before) = Len(wantBefore)
            /\ pc[c] = "resolved" =>
                    /\ Len(after) = Len(wantAfter)
                    /\ result[c] = IF after = << >>
                                    THEN EventsOf(c, "createResult")[1].ret
                                    ELSE after[Len(after)].ret

\* A call with hooks of all three scopes has resolved, two of the hooks
\* lacking a capability.
C2_Witness ==
    \E c \in Calls :
        /\ pc[c] = "resolved"
        /\ Prop(options, "hooks") = Some(<<G1, G2>>)
        /\ Prop(resource, "hooks") = Some(<<R2, R1>>)
        /\ DescriptorField(c, "hooks") = Some(<<Q1>>)
        /\ Len(EventsOf(c, "beforeRequest")) = 4
        /\ Len(EventsOf(c, "afterRequest")) = 4

\* C3: the Content-Type step adds application/json only when, after the
\* before stage, the encoder is the default one and no Content-Type is set;
\* a Content-Type set by any layer or hook, or a hook-installed encoder,
\* leaves the headers (of the Request and those handed to fetch) as the
\* before stage left them.
C3_ContentTypeAuto ==
    \A c \in Calls :
        HasSent(c) =>
            LET pre == HeadersAfterBefore(c)
                post == log[c][FetchIndex(c)].headers
                handed == sent[c].headers[1]
                encoder == OrElse(Prop(RequestAfterBefore(c), "encoder"),
                                  "JSON.stringify")
            IN  /\ post # pre =>
                     /\ encoder = "JSON.stringify"
                     /\ "Content-Type" \notin DOMAIN pre
                     /\ post = ("Content-Type" :> "application/json") @@ pre
                /\ ("Content-Type" \in DOMAIN pre \/ encoder # "JSON.stringify")
                     => post = pre /\ handed = pre
                /\ "Content-Type" \in DOMAIN handed =>
                     \/ Prop(handed, "Content-Type") = Prop(pre, "Content-Type")
                     \/ /\ encoder = "JSON.stringify"
                        /\ "Content-Type" \notin DOMAIN pre
                        /\ handed["Content-Type"] = "application/json"

\* A hook installed its own encoder, no layer set a Content-Type, and none
\* was added.
C3_Witness ==
    \E c \in Calls :
        /\ HasSent(c)
        /\ DescriptorField(c, "hooks") = Some(<<QEncoder>>)
        /\ Prop(RequestAfterBefore(c), "encoder") = Some("formEncode")
        /\ "Content-Type" \notin DOMAIN HeadersOf(heap, request[c])

AfterFirstSpace(s) ==
    IF \A i \in 1..Len(s) : s[i] # " " THEN s
    ELSE LET i == CHOOSE k \in 1..Len(s) :
                    s[k] = " " /\ \A j \in 1..(k - 1) : s[j] # " "
         IN  SubSeq(s, i + 1, Len(s))

\* C6: a structured descriptor {method: M, route: R} with M a supported
\* verb proceeds with method M and the path of R, whether R is a bare path
\* or embeds a verb, and never fails with the invalid-method error.
C6_StructuredMethod ==
    \A c \in Calls :
        (pc[c] # "idle" /\ DescriptorField(c, "method") # None)
        => /\ error[c].name # "Invalid HTTP method"
           /\ Started(c)
           /\ Prop(log[c][1].ret, "method") = DescriptorField(c, "method")
           /\ log[c][1].ret.path = AfterFirstSpace(route[c].object.route)

\* C7: the initial timeout of the Request is the first non-absent of the
\* descriptor's, the resource's and the global timeout (the resource's and
\* the global one for a string route), and absent when all are.
C7_TimeoutPrecedence ==
    \A c \in Calls :
        Started(c) =>
            Prop(log[c][1].ret, "timeout")
                = IF DescriptorField(c, "timeout") # None
                  THEN DescriptorField(c, "timeout")
                  ELSE IF "timeout" \in DOMAIN resource
                  THEN Some(resource.timeout)
                  ELSE IF "timeout" \in DOMAIN options
                  THEN Some(options.timeout)
                  ELSE None

\* All three scopes set a timeout, and the descriptor's, 0, is the one the
\* Request got.
C7_Witness ==
    \E c \in Calls :
        /\ Started(c)
        /\ Prop(options, "timeout") = Some(30)
        /\ Prop(resource, "timeout") = Some(20)
        /\ DescriptorField(c, "timeout") = Some(0)
        /\ Prop(log[c][1].ret, "timeout") = Some(0)

\* C9: fetch gets no body if and only if the Request has none (undefined or
\* null); a passthrough body is handed over as it is; any other body is
\* handed over as encoder(body), the encoder being the Request's after the
\* before stage.
C9_BodyHandling ==
    \A c \in Calls :
        HasSent(c) =>
            LET body == Prop(RequestAfterBefore(c), "body")
                encoder == OrElse(Prop(RequestAfterBefore(c), "encoder"),
                                  "JSON.stringify")
                absent == body \in {None, Some(Null)}
            IN  /\ (sent[c].body = None) <=> absent
                /\ (~absent /\ IsPassthrough(body[1])) => sent[c].body = body
                /\ (~absent /\ ~IsPassthrough(body[1])) =>
                        sent[c].body = Some(Str(ApplyEncoder(encoder, body[1])))

\* The headers a call has after its first n before hooks, from its own
\* layers alone.
OwnHeaders(c, headers, n) == IsLayering(headers, HeaderLayers(c, n))

\* C10: whatever the interleaving of the calls, resourceStandardHeaders
\* keeps the configured global and resource headers, and the headers of
\* every call (of its initial Request, after each of its before hooks, at
\* fetch, and as its Request references them now) are the layering of its
\* own descriptor and hooks over them: no change made by another call's
\* hooks shows.
C10_NoSharedState ==
    /\ IsLayering(heap[StandardHeadersAddress],
                  <<[set |-> OrElse(Prop(options, "headers"), EmptyObject),
                     replace |-> FALSE],
                    [set |-> OrElse(Prop(resource, "headers"), EmptyObject),
                     replace |-> FALSE]>>)
    /\ \A c \in Calls :
        LET ran(k) == Len(SelectSeq(SubSeq(log[c], 1, k),
                                    LAMBDA e : e.ev = "beforeRequest"))
        IN  /\ \A k \in 1..Len(log[c]) :
                  (log[c][k].ev \in {"createRequest", "beforeRequest"}
                      /\ log[c][k].ret # EmptyObject)
                  => OwnHeaders(c, log[c][k].headers, ran(k))
            /\ pc[c] = "before" =>
                  OwnHeaders(c, HeadersOf(heap, request[c]), ran(Len(log[c])))
            /\ HasSent(c) =>
                  /\ OwnHeaders(c, sent[c].headers[1], ran(Len(log[c])))
                  /\ HeadersOf(heap, request[c])
                        = log[c][FetchIndex(c)].headers

\* Two calls are in flight together, each after its hooks changed the
\* headers of its Request, the second having started from the shared
\* resourceStandardHeaders after the first one's hooks ran.
C10_Witness ==
    \E c, d \in Calls :
        /\ c # d
        /\ pc[c] = "fetching" /\ pc[d] = "fetching"
        /\ route[c].type = "string" /\ route[d].type = "string"
        /\ EventsOf(c, "beforeRequest") # << >>
        /\ EventsOf(d, "beforeRequest") # << >>
        /\ log[c][1].ret.headers = StandardHeadersAddress
        /\ log[d][1].ret.headers = StandardHeadersAddress

\* C5: decoding the string route "<VERB> <path>" yields the uppercased VERB
\* and, as path, everything after the first space when VERB spells a
\* supported verb in any case; for any other token it fails with the
\* invalid-method error.
C5_RouteDecoding ==
    (outcome # NoProbe /\ probe.fn = "decodeRoute" /\ probe.method = None
        /\ ~probe.input.bare)
    => IF probe.input.token.verb # << >>
       THEN /\ outcome.ok
            /\ outcome.method = probe.input.token.verb
            /\ outcome.path = probe.input.path
       ELSE /\ ~outcome.ok
            /\ outcome.error.name = "Invalid HTTP method"

\* m holds every name of a and of b, with b's value on a shared name.
IsUnion(m, a, b) ==
    /\ DOMAIN m = DOMAIN a \cup DOMAIN b
    /\ \A n \in DOMAIN m : m[n] = IF n \in DOMAIN b THEN b[n] ELSE a[n]

\* C8: r.merge({headers: H}) on a Request or a Result returns a value whose
\* headers are the union of r's headers and H, H winning, and leaves r's
\* headers and other fields as they were.
C8_MergeNonDestructive ==
    (outcome # NoProbe /\ probe.fn \in {"Request.merge", "Result.merge"}
        /\ "headers" \in DOMAIN probe.arg)
    => IF probe.fn = "Request.merge"
       THEN /\ IsUnion(HeadersOf(heap, outcome.ret), probe.headers,
                       probe.arg.headers)
            /\ outcome.self = probe.this
            /\ HeadersOf(heap, probe.this) = probe.headers
       ELSE /\ IsUnion(HeaderEntries(outcome.ret.headers),
                       HeaderEntries(probe.this.headers),
                       HeaderEntries(probe.arg.headers))
            /\ outcome.self = probe.this

\* The text before the first space of a route, or the route when it has
\* none.
BeforeFirstSpace(s) ==
    IF \A i \in 1..Len(s) : s[i] # " " THEN s
    ELSE LET i == CHOOSE k \in 1..Len(s) :
                    s[k] = " " /\ \A j \in 1..(k - 1) : s[j] # " "
         IN  SubSeq(s, 1, i - 1)

\* Call c was made with a string route "<token> <path>" whose token spells
\* none of the five verbs.
InvalidVerbCall(c) ==
    /\ pc[c] # "idle" /\ route[c].type = "string"
    /\ \E i \in 1..Len(route[c].text) : route[c].text[i] = " "
    /\ toUpperCase(BeforeFirstSpace(route[c].text)) \notin SupportedMethods

\* C11: a call whose route has an unrecognized verb token is rejected with
\* the invalid-method error carrying the (uppercased) token and the full
\* route string; a call rejected with that error has run no hook, has not
\* called fetch and has produced no Request and no Result.
C11_InvalidVerbFatal ==
    \A c \in Calls :
        /\ InvalidVerbCall(c) =>
              /\ pc[c] = "rejected"
              /\ error[c].name = "Invalid HTTP method"
              /\ error[c].token = toUpperCase(BeforeFirstSpace(route[c].text))
              /\ error[c].route = route[c].text
        /\ error[c].name = "Invalid HTTP method" =>
              /\ pc[c] = "rejected"
              /\ log[c] = << >>
              /\ next[c] = 1
              /\ sent[c] = EmptyObject
              /\ response[c] = NoResponse
              /\ result[c] = EmptyObject

\* With hooks configured at both scopes, the call of route "fetch /users"
\* has been rejected.
C11_Witness ==
    \E c \in Calls :
        /\ InvalidVerbCall(c)
        /\ pc[c] = "rejected"
        /\ route[c].text = <<"f","e","t","c","h">> \o Space \o UsersPath
        /\ Prop(options, "hooks") = Some(<<G1, G2>>)
        /\ Prop(resource, "hooks") = Some(<<R2, R1>>)

\* The response of call c has arrived and its body does not decode under
\* the decoder of the call.
DecodeFailed(c) ==
    /\ pc[c] \notin {"idle", "before", "fetching", "decoding"}
    /\ response[c] # NoResponse
    /\ ~DecodeResponse(locals[c].decoder, response[c].text).ok

\* C12: when the response body fails to decode under the active decoder,
\* the call is rejected with a DecodeError wrapping the parse exception, no
\* Result is produced and no afterRequest hook runs.
C12_DecodeFailure ==
    \A c \in Calls :
        DecodeFailed(c) =>
            /\ pc[c] = "rejected"
            /\ error[c].name = "DecodeError"
            /\ result[c] = EmptyObject
            /\ EventsOf(c, "createResult") = << >>
            /\ EventsOf(c, "afterRequest") = << >>

\* C13: when the Request of a call has a timeout and no caller-supplied
\* signal, and the timeout runs out before the transport has completed, the
\* call is rejected with the signal's cancellation error, there is no
\* Result and no afterRequest hook has run.
C13_Timeout ==
    \A c \in Calls :
        (late[c] /\ Prop(request[c], "abortSignal") = None) =>
            /\ pc[c] = "rejected"
            /\ error[c].name = "TimeoutError"
            /\ result[c] = EmptyObject
            /\ EventsOf(c, "afterRequest") = << >>

\* C14: decoding a bare route string (no space, no method given) yields
\* method GET and the route itself as path.
C14_BareRoute ==
    (outcome # NoProbe /\ probe.fn = "decodeRoute" /\ probe.method = None
        /\ probe.input.bare)
    => /\ outcome.ok
       /\ outcome.method = GET
       /\ outcome.path = probe.input.route

\* The bare route "/users", or the bare route "post", has been decoded.
C14_Witness ==
    /\ outcome # NoProbe /\ probe.fn = "decodeRoute" /\ probe.method = None
    /\ probe.input.bare
    /\ probe.input.route \in {UsersPath, <<"p","o","s","t">>}
    /\ outcome.method = GET

\* The hook of event e is one whose capability throws.
Throws(c, e) ==
    \E i \in 1..Len(ConfiguredHooks(c)) :
        LET h == ConfiguredHooks(c)[i]
        IN  /\ h.id = e.hook
            /\ \/ e.ev = "beforeRequest" /\ h.before.do = "throw"
               \/ e.ev = "afterRequest" /\ h.after.do = "throw"

\* C15: when a hook throws, its call is the last thing the route callable
\* does: the call is rejected with the hook's error, no later hook runs,
\* a throwing beforeRequest leaves fetch uncalled, a throwing afterRequest
\* leaves the call without a Result; the Request (and its headers) or the
\* Result folded by the hooks that ran before stand as they were, and
\* nothing is run a second time.
C15_HookFailure ==
    \A c \in Calls :
        \A k \in 1..Len(log[c]) :
            Throws(c, log[c][k]) =>
                /\ k = Len(log[c])
                /\ pc[c] = "rejected"
                /\ error[c] = HookError(log[c][k].hook)
                /\ Len(EventsOf(c, "createRequest")) = 1
                /\ Len(EventsOf(c, "fetch")) <= 1
                /\ log[c][k].ev = "beforeRequest" =>
                      /\ sent[c] = EmptyObject
                      /\ EventsOf(c, "fetch") = << >>
                      /\ result[c] = EmptyObject
                      /\ request[c] = log[c][k - 1].ret
                      /\ HeadersOf(heap, request[c]) = log[c][k - 1].headers
                /\ log[c][k].ev = "afterRequest" =>
                      /\ result[c] = log[c][k - 1].ret

\* The second descriptor hook threw after a global hook had added a header
\* and the first descriptor hook had set the body: both changes stand.
C15_Witness ==
    \E c \in Calls :
        /\ pc[c] = "rejected"
        /\ error[c] = HookError("QThrowBefore")
        /\ Prop(options, "hooks") = Some(<<G1>>)
        /\ Prop(request[c], "body") = Some(Num("7"))
        /\ Prop(HeadersOf(heap, request[c]), "X-Trace") = Some("G1")

\* The events of call c before its k-th one.
Earlier(c, k, ev) ==
    {j \in 1..(k - 1) : log[c][j].ev = ev}

C17_Deadline ==
    \A c \in Calls :
        HasSent(c) =>
            LET final == RequestAfterBefore(c)
            IN  sent[c].signal
                  = IF Prop(final, "abortSignal") # None
                    THEN Prop(final, "abortSignal")
                    ELSE IF Prop(final, "timeout") # None
                    THEN Some(AbortSignalTimeout(final.timeout))
                    ELSE None

\* m, keyed from 0, holds at every index of the arrays a and b the entry of
\* b when b has that index, and the one of a otherwise.
IsIndexUnion(m, a, b) ==
    /\ DOMAIN m = {i - 1 : i \in DOMAIN a \cup DOMAIN b}
    /\ \A i \in DOMAIN m : m[i] = IF i + 1 \in DOMAIN b THEN b[i + 1]
                                   ELSE a[i + 1]

C19_HookListFixed ==
    \A c \in Calls :
        Started(c) =>
            LET before == EventsOf(c, "beforeRequest")
                after == EventsOf(c, "afterRequest")
                wantBefore == HooksWith("before", ConfiguredHooks(c))
                wantAfter == HooksWith("after", ConfiguredHooks(c))
            IN  /\ hooks[c] = ConfiguredHooks(c)
                /\ Len(before) <= Len(wantBefore)
                /\ Len(after) <= Len(wantAfter)
                /\ \A i \in 1..Len(before) : before[i].hook = wantBefore[i].id
                /\ \A i \in 1..Len(after) : after[i].hook = wantAfter[i].id
                /\ HasSent(c) => Len(before) = Len(wantBefore)
                /\ pc[c] = "resolved" => Len(after) = Len(wantAfter)

\* The first descriptor hook replaced itself by G2 in the hooks of the
\* Request; the call resolved having run the after capabilities of G1 and
\* Q1 only.
C19_Witness ==
    \E c \in Calls :
        /\ pc[c] = "resolved"
        /\ Prop(options, "hooks") = Some(<<G1>>)
        /\ Prop(resource, "hooks") = None
        /\ DescriptorField(c, "hooks") = Some(<<QMergeHooks, Q1>>)
        /\ Prop(request[c], "hooks") = Some((0 :> G2) @@ (1 :> Q1))
        /\ Len(EventsOf(c, "afterRequest")) = 2
        /\ EventsOf(c, "afterRequest")[2].hook = "Q1"

====
